---- MODULE Spec2Model ----
(***************************************************************************)
(* Model of verify_tokens.py: DiscordTokenVerifier and main.               *)
(*                                                                         *)
(* Python str values are sequences of one-character strings, so that       *)
(* strip(), slicing, int() and strftime() are computed and not assumed.    *)
(* Values taken from the provider's JSON body are tagged (PyStr, PyInt,    *)
(* PyNone, PyBool) because the code passes them on untyped.  Status        *)
(* messages are plain strings built with \o as the f-strings build them.   *)
(* Console output (print) is not state and is assumed to succeed.          *)
(***************************************************************************)
EXTENDS Integers, Sequences, FiniteSets, TLC

(***************************************************************************)
(* Bounds of the model.                                                    *)
(***************************************************************************)
MaxCalls == 2      \* verify_from_file calls made by an importing caller
MaxRecords == 2    \* records the results collection may reach

(***************************************************************************)
(* Python values.                                                          *)
(***************************************************************************)
PyStr(s) == [t |-> "str", s |-> s]
PyInt(i) == [t |-> "int", i |-> i]
PyBool(b) == [t |-> "bool", b |-> b]
PyNone == [t |-> "none"]

\* the literal "N/A" (lines 31-34, 44-48, 100, 102)
NA == PyStr(<<"N", "/", "A">>)

\* bool(v), as `if user_id:` evaluates it (line 96)
Truthy(v) ==
    CASE v.t = "none" -> FALSE
      [] v.t = "int" -> v.i # 0
      [] v.t = "bool" -> v.b
      [] v.t = "str" -> Len(v.s) > 0

(***************************************************************************)
(* str.strip() and the token list of verify_from_file (line 108).          *)
(***************************************************************************)
IsSpace(c) == c \in {" ", "\t", "\n"}

RECURSIVE LStrip(_)
LStrip(s) == IF s # <<>> /\ IsSpace(Head(s)) THEN LStrip(Tail(s)) ELSE s

RECURSIVE RStrip(_)
RStrip(s) ==
    IF s # <<>> /\ IsSpace(s[Len(s)]) THEN RStrip(SubSeq(s, 1, Len(s) - 1)) ELSE s

\* mutant: lstrip() in place of strip()
StripLeftOnly(s) == LStrip(s)

Strip(s) == RStrip(LStrip(s))

\* iterating an open text file yields each line with its newline
ReadLines(content) == [i \in 1..Len(content) |-> content[i] \o <<"\n">>]

RECURSIVE ReadTokens(_)
\* [line.strip() for line in f if line.strip()]
ReadTokens(lines) ==
    IF lines = <<>> THEN <<>>
    ELSE IF Strip(Head(lines)) # <<>>
         THEN <<Strip(Head(lines))>> \o ReadTokens(Tail(lines))
         ELSE ReadTokens(Tail(lines))

\* s[:n]
Take(s, n) == SubSeq(s, 1, IF Len(s) < n THEN Len(s) ELSE n)

(***************************************************************************)
(* int(), >> 22, datetime.fromtimestamp and strftime (lines 93-102).       *)
(***************************************************************************)
Digit == [c \in {"0", "1", "2", "3", "4", "5", "6", "7", "8", "9"} |->
            CASE c = "0" -> 0 [] c = "1" -> 1 [] c = "2" -> 2 [] c = "3" -> 3
              [] c = "4" -> 4 [] c = "5" -> 5 [] c = "6" -> 6 [] c = "7" -> 7
              [] c = "8" -> 8 [] c = "9" -> 9]

DigitChar == <<"0", "1", "2", "3", "4", "5", "6", "7", "8", "9">>

AllDigits(s) == \A i \in 1..Len(s) : s[i] \in DOMAIN Digit

RECURSIVE DigitsValue(_, _)
DigitsValue(s, acc) ==
    IF s = <<>> THEN acc ELSE DigitsValue(Tail(s), acc * 10 + Digit[Head(s)])

Failed == [ok |-> FALSE]
Parsed(n) == [ok |-> TRUE, val |-> n]

\* int(str): surrounding whitespace and one sign are accepted, then digits
ParseIntStr(s) ==
    LET body == Strip(s)
        signed == body # <<>> /\ Head(body) \in {"+", "-"}
        digits == IF signed THEN Tail(body) ELSE body
    IN  IF digits = <<>> \/ ~AllDigits(digits) THEN Failed
        ELSE IF signed /\ Head(body) = "-" THEN Parsed(0 - DigitsValue(digits, 0))
        ELSE Parsed(DigitsValue(digits, 0))

\* int(v); int(None) raises TypeError, int("abc") raises ValueError
PyIntOf(v) ==
    CASE v.t = "int" -> Parsed(v.i)
      [] v.t = "bool" -> Parsed(IF v.b THEN 1 ELSE 0)
      [] v.t = "str" -> ParseIntStr(v.s)
      [] v.t = "none" -> Failed

TwoTo22 == 4194304
\* 1420070400000 ms, kept in seconds: the model's integers are 32 bits wide
EpochSec == 1420070400

\* n >> 22 (an arithmetic shift: floor division, also for negative n)
Shr22(n) == n \div TwoTo22

\* (int(user_id) >> 22) + 1420070400000, then / 1000: whole seconds since 1970
TimestampSec(n) == EpochSec + (Shr22(n) \div 1000)

\* zero-padded decimal of width w
RECURSIVE Pad(_, _)
Pad(n, w) == IF w = 0 THEN <<>> ELSE Pad(n \div 10, w - 1) \o <<DigitChar[(n % 10) + 1]>>

\* the civil date of a day count since 1970-01-01 (proleptic Gregorian)
CivilFromDays(days) ==
    LET z == days + 719468
        era == z \div 146097
        doe == z - era * 146097
        yoe == (doe - doe \div 1460 + doe \div 36524 - doe \div 146096) \div 365
        doy == doe - (365 * yoe + yoe \div 4 - yoe \div 100)
        mp == (5 * doy + 2) \div 153
        d == doy - (153 * mp + 2) \div 5 + 1
        m == IF mp < 10 THEN mp + 3 ELSE mp - 9
        y == yoe + era * 400 + (IF m <= 2 THEN 1 ELSE 0)
    IN  [y |-> y, m |-> m, d |-> d]

\* datetime.fromtimestamp(t).strftime("%Y-%m-%d %H:%M:%S"), local zone UTC
Strftime(sec) ==
    LET date == CivilFromDays(sec \div 86400)
        rem == sec % 86400
    IN  Pad(date.y, 4) \o <<"-">> \o Pad(date.m, 2) \o <<"-">> \o Pad(date.d, 2)
        \o <<" ">> \o Pad(rem \div 3600, 2) \o <<":">> \o Pad((rem % 3600) \div 60, 2)
        \o <<":">> \o Pad(rem % 60, 2)

get_creation_date(user_id) ==
    IF Truthy(user_id)
    THEN LET n == PyIntOf(user_id)
         IN  IF n.ok THEN PyStr(Strftime(TimestampSec(n.val))) ELSE NA
    ELSE NA

(***************************************************************************)
(* What one outbound request can come to (lines 20-24, 27).                *)
(* A response carries a status code and a body; the body is a JSON object  *)
(* (a function from the field names present to values), some other JSON    *)
(* value, or text that response.json() cannot parse.  The request can also *)
(* raise: a requests exception, or another exception.                      *)
(***************************************************************************)
Response(code, body) == [k |-> "response", code |-> code, body |-> body]
Raises(cls, msg) == [k |-> "raise", cls |-> cls, msg |-> msg]

Object(fields) == [k |-> "object", fields |-> fields]
NonObject == [k |-> "nonobject"]
\* response.json() raises requests.exceptions.JSONDecodeError (a
\* RequestException) from requests 2.27 on, and a plain ValueError before
Unparseable(cls) == [k |-> "unparseable", cls |-> cls]

FullBody ==
    Object([username |-> PyStr(<<"b", "o", "b">>),
            id |-> PyStr(<<"4", "1", "9", "4", "3", "0", "4">>),
            email |-> PyNone,
            avatar |-> PyStr(<<"f", "0">>),
            verified |-> PyBool(TRUE),
            mfa_enabled |-> PyBool(TRUE)])
\* an account whose name is the text N/A, with an integer id of zero
OddBody ==
    Object([username |-> NA, id |-> PyInt(0),
            email |-> PyStr(<<"n", "@", "x">>), avatar |-> PyNone])
EmptyBody == Object(<<>>)

Bodies ==
    {FullBody, OddBody, EmptyBody, NonObject,
     Unparseable("JSONDecodeError"), Unparseable("ValueError")}

Outcomes ==
    {Response(200, b) : b \in Bodies}
    \cup {Response(401, EmptyBody), Response(403, EmptyBody),
          Response(500, Unparseable("ValueError"))}
    \cup {Raises("ConnectionError", "refused"), Raises("Timeout", "timed out"),
          Raises("UnicodeEncodeError", "codec")}

\* the classes `except requests.exceptions.RequestException` catches (line 66)
IsRequestException(cls) == cls \in {"ConnectionError", "Timeout", "JSONDecodeError"}

(***************************************************************************)
(* verify_token (lines 12-91).                                             *)
(***************************************************************************)
\* dict.get(key, default)
Get(fields, key, default) == IF key \in DOMAIN fields THEN fields[key] ELSE default

\* the record of lines 41-52, 54-65, 67-78, 80-91
Invalid(token, status) ==
    [token |-> token, valid |-> FALSE, username |-> NA, user_id |-> NA,
     email |-> NA, avatar |-> NA, created_at |-> NA,
     verified |-> PyBool(FALSE), mfa_enabled |-> PyBool(FALSE), status |-> status]

\* mutant: the avatar field read from the wrong key
ValidRecordWrongKey(token, user_data) ==
    [token |-> token, valid |-> TRUE,
     username |-> Get(user_data, "username", NA),
     user_id |-> Get(user_data, "id", NA),
     email |-> Get(user_data, "email", NA),
     avatar |-> Get(user_data, "id", NA),
     created_at |-> get_creation_date(Get(user_data, "id", PyNone)),
     verified |-> Get(user_data, "verified", PyBool(FALSE)),
     mfa_enabled |-> Get(user_data, "mfa_enabled", PyBool(FALSE)),
     status |-> "Valid Token"]

\* the record of lines 28-39
ValidRecord(token, user_data) ==
    [token |-> token, valid |-> TRUE,
     username |-> Get(user_data, "username", NA),
     user_id |-> Get(user_data, "id", NA),
     email |-> Get(user_data, "email", NA),
     avatar |-> Get(user_data, "avatar", NA),
     created_at |-> get_creation_date(Get(user_data, "id", PyNone)),
     verified |-> Get(user_data, "verified", PyBool(FALSE)),
     mfa_enabled |-> Get(user_data, "mfa_enabled", PyBool(FALSE)),
     status |-> "Valid Token"]

Returned(value) == [returned |-> TRUE, value |-> value]
Raised(cls, msg) == [returned |-> FALSE, cls |-> cls, msg |-> msg]

UnauthorizedStatus == "Invalid Token - Unauthorized"
HttpErrorStatus(code) == "Error - HTTP " \o ToString(code)
ConnectionErrorStatus(msg) == "Connection Error: " \o msg
OtherErrorStatus(msg) == "Error: " \o msg

\* mutant: user_data["username"] in place of user_data.get("username", "N/A")
SuccessBranchSubscript(token, body) ==
    CASE body.k = "object" ->
            IF "username" \in DOMAIN body.fields
            THEN Returned(ValidRecord(token, body.fields))
            ELSE Raised("KeyError", "'username'")
      [] body.k = "nonobject" -> Raised("AttributeError", "no attribute 'get'")
      [] body.k = "unparseable" -> Raised(body.cls, "Expecting value")

\* response.json() followed by the user_data.get calls (lines 27-39)
SuccessBranch(token, body) ==
    CASE body.k = "object" -> Returned(ValidRecord(token, body.fields))
      [] body.k = "nonobject" -> Raised("AttributeError", "no attribute 'get'")
      [] body.k = "unparseable" -> Raised(body.cls, "Expecting value")

\* mutant: 403 answered like 401
TryBodyForbiddenAsUnauthorized(token, outcome) ==
    IF outcome.k = "raise" THEN Raised(outcome.cls, outcome.msg)
    ELSE IF outcome.code = 200 THEN SuccessBranch(token, outcome.body)
    ELSE IF outcome.code \in {401, 403} THEN Returned(Invalid(token, UnauthorizedStatus))
    ELSE Returned(Invalid(token, HttpErrorStatus(outcome.code)))

\* the body of the try statement (lines 15-65)
TryBody(token, outcome) ==
    IF outcome.k = "raise" THEN Raised(outcome.cls, outcome.msg)
    ELSE IF outcome.code = 200 THEN SuccessBranch(token, outcome.body)
    ELSE IF outcome.code = 401 THEN Returned(Invalid(token, UnauthorizedStatus))
    ELSE Returned(Invalid(token, HttpErrorStatus(outcome.code)))

\* the two handlers, in the order the code lists them (lines 66-91)
verify_token(token, outcome) ==
    LET r == TryBody(token, outcome)
    IN  IF r.returned THEN r.value
        ELSE IF IsRequestException(r.cls)
             THEN Invalid(token, ConnectionErrorStatus(r.msg))
             ELSE Invalid(token, OtherErrorStatus(r.msg))

(***************************************************************************)
(* The input file and the two output files.                                *)
(***************************************************************************)
\* contents of the input file, line by line without the newlines: an empty
\* file, blank and whitespace-only lines alone, padded tokens, a token with
\* inner whitespace, blank lines between tokens, the same token twice
FileContents ==
    {<<>>,
     << <<>>, <<" ">> >>,
     << <<" ", "a", "\t">> >>,
     << <<"b">>, <<>>, <<"a", " ", "b">> >>,
     << <<"\t">>, <<"b">>, <<"b", " ">> >>}

Missing == [k |-> "missing"]
Unreadable == [k |-> "unreadable"]
Readable(content) == [k |-> "readable", content |-> content]

InputFiles == {Missing, Unreadable} \cup {Readable(c) : c \in FileContents}

NoFile == [k |-> "none"]
Absent == [k |-> "absent"]
Truncated == [k |-> "truncated"]
Written(data) == [k |-> "written", data |-> data]

\* how a write to an output file goes: open(..., 'w') raises, a later
\* write raises after the file has been truncated, or all of it succeeds
WriteOutcomes == {"ok", "open fails", "write fails"}

\* json.dump(self.results, f, indent=2) (lines 137-138)
JsonDocument(res) == res

\* one block of the text report (lines 153-163)
TxtBlock(r) ==
    IF r.valid
    THEN [token |-> Take(r.token, 30), status |-> r.status, valid |-> r.valid,
          username |-> r.username, user_id |-> r.user_id, email |-> r.email,
          created_at |-> r.created_at, verified |-> r.verified,
          mfa_enabled |-> r.mfa_enabled]
    ELSE [token |-> Take(r.token, 30), status |-> r.status, valid |-> r.valid]

\* the blocks after the banner (lines 152-163)
TxtDocument(res) == [i \in 1..Len(res) |-> TxtBlock(res[i])]

\* the file after `with open(output_file, 'w') as f:` and its writes
WriteFile(old, document, how) ==
    CASE how = "ok" -> Written(document)
      [] how = "open fails" -> old
      [] how = "write fails" -> Truncated

\* mutant: no handler around the write
SaveRaisesOnFailure(how) == how # "ok"

\* whether a save_results_* call raises to its caller: the handlers of
\* lines 140-141 and 166-167 catch every Exception of the write
SaveRaises(how) == FALSE

\* mutant: self.results.insert(0, result)
AppendResultFront(res, result) == <<result>> \o res

\* self.results.append(result) (line 115)
AppendResult(res, result) == Append(res, result)

\* mutant: the request is sent a second time
IssueRequestTwice(log, token) == Append(Append(log, token), token)

\* requests.get(...) (lines 20-24): one request per call of verify_token
IssueRequest(log, token) == Append(log, token)

\* mutant: the handlers return self.results
ErrorReturnResults(res) == res

\* what verify_from_file returns from its handlers (lines 129, 132)
ErrorReturn(res) == <<>>

(***************************************************************************)
(* State.                                                                  *)
(***************************************************************************)
VARIABLES
    caller,     \* "main": the script; "api": an importing caller of the
                \* class; "decoder": a caller of get_creation_date alone
    pc,         \* position of the control flow
    file,       \* the input file of the current verify_from_file call
    tokens,     \* verify_from_file's local list `tokens`
    idx,        \* position of the for loop in tokens
    results,    \* self.results
    ret,        \* what the last verify_from_file call returned
    exit,       \* how that call went: "none" before any call, "running",
                \* "normal", "missing", "unreadable"
    calls,      \* verify_from_file calls made so far
    before,     \* self.results as it was when the current call began
    sent,       \* tokens for which a request was issued, in order
    outcomes,   \* what each finished request came to, in order
    inflight,   \* requests issued and not yet answered
    jsonFile,   \* results.json
    txtFile,    \* results.txt
    jsonCalls,  \* calls of save_results_json so far
    txtCalls,   \* calls of save_results_txt so far
    decoded     \* last direct get_creation_date call: <<argument, result>>

vars ==
    <<caller, pc, file, tokens, idx, results, ret, exit, calls, before, sent,
      outcomes, inflight, jsonFile, txtFile, jsonCalls, txtCalls, decoded>>

loopVars == <<tokens, idx, results, sent, outcomes, inflight>>
saveVars == <<jsonFile, txtFile, jsonCalls, txtCalls>>

IdSamples ==
    {PyNone, PyStr(<<>>), PyStr(<<"a", "b">>), PyStr(<<"1", "x">>),
     PyInt(0), PyStr(<<"0">>),
     PyInt(4194304), PyStr(<<"4", "1", "9", "4", "3", "0", "4">>),
     PyInt(2147483647), PyStr(<<"2", "1", "4", "7", "4", "8", "3", "6", "4", "7">>),
     PyInt(-1), PyStr(<<"-", "1">>)}

\* DiscordTokenVerifier() (lines 8-10), before the caller's first step
Init ==
    /\ caller \in {"main", "api", "decoder"}
    /\ pc = IF caller = "main" THEN "m_start" ELSE "idle"
    /\ file = NoFile
    /\ tokens = <<>>
    /\ idx = 1
    /\ results = <<>>
    /\ ret = <<>>
    /\ exit = "none"
    /\ calls = 0
    /\ before = <<>>
    /\ sent = <<>>
    /\ outcomes = <<>>
    /\ inflight = 0
    /\ jsonFile = Absent
    /\ txtFile = Absent
    /\ jsonCalls = 0
    /\ txtCalls = 0
    /\ decoded = <<>>

\* where control goes when verify_from_file returns
AfterReturn == IF caller = "main" THEN "m_check" ELSE "idle"

(***************************************************************************)
(* main (lines 169-193).                                                   *)
(***************************************************************************)
\* lines 178-184: tokens.txt when it exists, otherwise the path typed in
MainResolveInput ==
    /\ pc = "m_start"
    /\ \E f \in InputFiles :
        /\ f.k = "readable" => Len(ReadTokens(ReadLines(f.content))) <= MaxRecords
        /\ file' = f
    /\ pc' = "vf_open"
    /\ calls' = calls + 1
    /\ before' = results
    /\ exit' = "running"
    /\ UNCHANGED <<caller, loopVars, ret, saveVars, decoded>>

\* line 181: input() raises EOFError when no input is given; main has no handler
MainPromptFails ==
    /\ pc = "m_start"
    /\ pc' = "crashed"
    /\ UNCHANGED <<caller, file, loopVars, ret, exit, calls, before, saveVars, decoded>>

\* lines 187-193
MainCheckResults ==
    /\ pc = "m_check"
    /\ pc' = IF results # <<>> THEN "m_json" ELSE "done"
    /\ UNCHANGED <<caller, file, loopVars, ret, exit, calls, before, saveVars, decoded>>

(***************************************************************************)
(* verify_from_file (lines 104-132).                                       *)
(***************************************************************************)
\* lines 106-111 and the handlers of lines 127-132
VerifyFromFileOpen ==
    /\ pc = "vf_open"
    /\ IF file.k = "readable"
       THEN /\ tokens' = ReadTokens(ReadLines(file.content))
            /\ idx' = 1
            /\ pc' = "vf_loop"
            /\ UNCHANGED <<ret, exit>>
       ELSE /\ ret' = ErrorReturn(results)
            /\ exit' = file.k
            /\ pc' = AfterReturn
            /\ UNCHANGED <<tokens, idx>>
    /\ UNCHANGED <<caller, file, results, calls, before, sent, outcomes, inflight,
                   saveVars, decoded>>

\* line 114 up to the request of lines 20-24 going out
SendRequest ==
    /\ pc = "vf_loop"
    /\ idx <= Len(tokens)
    /\ sent' = IssueRequest(sent, tokens[idx])
    /\ inflight' = inflight + (Len(sent') - Len(sent))
    /\ pc' = "vf_wait"
    /\ UNCHANGED <<caller, file, tokens, idx, results, ret, exit, calls, before,
                   outcomes, saveVars, decoded>>

\* the rest of verify_token and lines 115-125
ReceiveAndAppend ==
    /\ pc = "vf_wait"
    /\ \E o \in Outcomes :
        /\ results' = AppendResult(results, verify_token(tokens[idx], o))
        /\ outcomes' = Append(outcomes, o)
    /\ inflight' = inflight - 1
    /\ idx' = idx + 1
    /\ pc' = "vf_loop"
    /\ UNCHANGED <<caller, file, tokens, ret, exit, calls, before, sent, saveVars,
                   decoded>>

\* line 126
VerifyFromFileReturn ==
    /\ pc = "vf_loop"
    /\ idx > Len(tokens)
    /\ ret' = results
    /\ exit' = "normal"
    /\ pc' = AfterReturn
    /\ UNCHANGED <<caller, file, loopVars, calls, before, saveVars, decoded>>

(***************************************************************************)
(* save_results_json (lines 134-141) and save_results_txt (lines 143-167). *)
(***************************************************************************)
save_results_json(how) ==
    /\ jsonFile' = WriteFile(jsonFile, JsonDocument(results), how)
    /\ jsonCalls' = jsonCalls + 1
    /\ UNCHANGED <<txtFile, txtCalls>>

save_results_txt(how) ==
    /\ txtFile' = WriteFile(txtFile, TxtDocument(results), how)
    /\ txtCalls' = txtCalls + 1
    /\ UNCHANGED <<jsonFile, jsonCalls>>

\* line 189
MainSaveJson ==
    /\ pc = "m_json"
    /\ \E how \in WriteOutcomes :
        /\ save_results_json(how)
        /\ pc' = IF SaveRaises(how) THEN "crashed" ELSE "m_txt"
    /\ UNCHANGED <<caller, file, loopVars, ret, exit, calls, before, decoded>>

\* lines 190-191
MainSaveTxt ==
    /\ pc = "m_txt"
    /\ \E how \in WriteOutcomes :
        /\ save_results_txt(how)
        /\ pc' = IF SaveRaises(how) THEN "crashed" ELSE "done"
    /\ UNCHANGED <<caller, file, loopVars, ret, exit, calls, before, decoded>>

(***************************************************************************)
(* A caller that imports the class and calls verify_from_file repeatedly.   *)
(***************************************************************************)
ApiVerifyFromFile ==
    /\ caller = "api"
    /\ pc = "idle"
    /\ calls < MaxCalls
    /\ \E f \in InputFiles :
        /\ f.k = "readable" =>
              Len(results) + Len(ReadTokens(ReadLines(f.content))) <= MaxRecords
        /\ file' = f
    /\ pc' = "vf_open"
    /\ calls' = calls + 1
    /\ before' = results
    /\ exit' = "running"
    /\ UNCHANGED <<caller, loopVars, ret, saveVars, decoded>>

DecoderCall ==
    /\ caller = "decoder"
    /\ pc = "idle"
    /\ \E id \in IdSamples : decoded' = <<id, get_creation_date(id)>>
    /\ UNCHANGED <<caller, pc, file, loopVars, ret, exit, calls, before, saveVars>>

Next ==
    \/ MainResolveInput
    \/ MainPromptFails
    \/ MainCheckResults
    \/ VerifyFromFileOpen
    \/ SendRequest
    \/ ReceiveAndAppend
    \/ VerifyFromFileReturn
    \/ MainSaveJson
    \/ MainSaveTxt
    \/ ApiVerifyFromFile
    \/ DecoderCall

Spec == Init /\ [][Next]_vars

(***************************************************************************)
(* Properties.                                                             *)
(***************************************************************************)
IdentityKeys ==
    {<<"username", "username">>, <<"user_id", "id">>, <<"email", "email">>,
     <<"avatar", "avatar">>}

\* the identity fields of a result record hold the sentinel
AllSentinel(r) ==
    /\ r.username = NA
    /\ r.user_id = NA
    /\ r.email = NA
    /\ r.avatar = NA
    /\ r.created_at = NA

Messages == {"refused", "timed out", "codec", "Expecting value", "no attribute 'get'"}
StartsWith(status, prefix) == \E m \in Messages : status = prefix \o m

Is200(o) == o.k = "response" /\ o.code = 200

\* a line with the whitespace at both ends removed, stated by positions
TrimmedLine(line) ==
    LET keep == {i \in 1..Len(line) : line[i] \notin {" ", "\t", "\n"}}
    IN  IF keep = {} THEN <<>>
        ELSE SubSeq(line, CHOOSE i \in keep : \A j \in keep : i <= j,
                          CHOOSE i \in keep : \A j \in keep : j <= i)

\* the trimmed lines of a file that are not empty, in the file's order
NonBlankTrimmed(content) ==
    SelectSeq([i \in 1..Len(content) |-> TrimmedLine(content[i])],
              LAMBDA t : t # <<>>)

\* C1: a verify_from_file call on a verifier without records, on a readable
\* file, ends with one record per non-blank trimmed line, in the file's
\* order, whatever each check came to.
C1_OneRecordPerLine ==
    (exit = "normal" /\ before = <<>>) =>
        LET L == NonBlankTrimmed(file.content)
        IN  /\ Len(results) = Len(L)
            /\ \A i \in 1..Len(L) : results[i].token = L[i]

C1_Witness ==
    /\ exit = "normal"
    /\ before = <<>>
    /\ Len(file.content) = 3
    /\ Len(results) = 2
    /\ results[1].valid
    /\ ~results[2].valid
    /\ results[2].token = <<"a", " ", "b">>

\* C2 as stated: every 200 answer gives valid = true and status
\* "Valid Token", whatever the body.
C2_Original ==
    \A i \in 1..Len(results) :
        Is200(outcomes[i]) => results[i].valid /\ results[i].status = "Valid Token"

\* C2 amended: every 200 answer whose body parses to a JSON object, with or
\* without its fields, gives valid = true and status "Valid Token"; a 200
\* answer with any other body gives valid = false.
C2_ObjectBodyIsValid ==
    \A i \in 1..Len(results) :
        Is200(outcomes[i]) =>
            IF outcomes[i].body.k = "object"
            THEN results[i].valid /\ results[i].status = "Valid Token"
            ELSE ~results[i].valid /\ results[i].status # "Valid Token"

C2_Witness ==
    \E i \in 1..Len(results) :
        /\ outcomes[i] = Response(200, EmptyBody)
        /\ results[i].valid
        /\ results[i].status = "Valid Token"

\* C3: an answer with a status other than 200 gives valid = false, the
\* sentinel in every identity field, and the status "Invalid Token -
\* Unauthorized" for 401 and "Error - HTTP <code>" otherwise.
C3_NonSuccessStatus ==
    \A i \in 1..Len(results) :
        (outcomes[i].k = "response" /\ outcomes[i].code # 200) =>
            /\ ~results[i].valid
            /\ AllSentinel(results[i])
            /\ results[i].status =
                  IF outcomes[i].code = 401 THEN "Invalid Token - Unauthorized"
                  ELSE "Error - HTTP " \o ToString(outcomes[i].code)

C3_Witness ==
    /\ Len(results) = 2
    /\ outcomes[1].k = "response" /\ outcomes[1].code = 401
    /\ results[1].status = "Invalid Token - Unauthorized"
    /\ outcomes[2].k = "response" /\ outcomes[2].code = 403
    /\ results[2].status = "Error - HTTP 403"

\* a failure of the network: the request itself raised a connection error
\* or a timeout
NetworkFailure(o) == o.k = "raise" /\ o.cls \in {"ConnectionError", "Timeout"}

\* any other failure: the request raised something else, or the answer
\* could not be processed
OtherFailure(o) ==
    \/ o.k = "raise" /\ o.cls \notin {"ConnectionError", "Timeout"}
    \/ Is200(o) /\ o.body.k # "object"

\* C4: a failed check gives a record with valid = false and the sentinel in
\* every identity field, whose status starts with "Connection Error: " for
\* a network failure and with "Error: " for any other failure, and the
\* credentials after it are still checked.
C4_FailureRecords ==
    /\ \A i \in 1..Len(results) :
          /\ (NetworkFailure(outcomes[i]) \/ OtherFailure(outcomes[i])) =>
                ~results[i].valid /\ AllSentinel(results[i])
          /\ NetworkFailure(outcomes[i]) =>
                StartsWith(results[i].status, "Connection Error: ")
          /\ OtherFailure(outcomes[i]) => StartsWith(results[i].status, "Error: ")
    /\ exit = "normal" => Len(results) = Len(before) + Len(tokens)

\* C5 as stated: every identity field of a valid record equals the field of
\* the response and none is the sentinel.
C5_Original ==
    \A i \in 1..Len(results) :
        results[i].valid =>
            /\ Is200(outcomes[i]) /\ outcomes[i].body.k = "object"
            /\ \A f \in IdentityKeys :
                  /\ f[2] \in DOMAIN outcomes[i].body.fields
                  /\ results[i][f[1]] = outcomes[i].body.fields[f[2]]
                  /\ results[i][f[1]] # NA

\* C5 amended: every identity field of a valid record equals the field of
\* the response when the response has it, and is the sentinel when the
\* response lacks it.
C5_FieldsFromResponse ==
    \A i \in 1..Len(results) :
        results[i].valid =>
            /\ Is200(outcomes[i]) /\ outcomes[i].body.k = "object"
            /\ \A f \in IdentityKeys :
                  results[i][f[1]] =
                      IF f[2] \in DOMAIN outcomes[i].body.fields
                      THEN outcomes[i].body.fields[f[2]]
                      ELSE NA

C5_Witness ==
    /\ Len(results) = 2
    /\ outcomes[1] = Response(200, FullBody)
    /\ results[1].valid
    /\ results[1].avatar = PyStr(<<"f", "0">>)
    /\ outcomes[2] = Response(200, EmptyBody)
    /\ results[2].valid
    /\ results[2].avatar = NA

ErrorPath == exit \in {"missing", "unreadable"}

C7_SavesIndependent ==
    caller = "main" =>
        /\ pc = "m_json" => (jsonCalls = 0 /\ txtCalls = 0)
        /\ pc = "m_txt" => (jsonCalls = 1 /\ txtCalls = 0)
        /\ (pc = "done" /\ results # <<>>) => (jsonCalls = 1 /\ txtCalls = 1)
        /\ pc = "crashed" => (jsonCalls = 0 /\ txtCalls = 0)
        /\ txtFile.k = "written" =>
              /\ Len(txtFile.data) = Len(results)
              /\ \A i \in 1..Len(results) :
                    /\ txtFile.data[i].status = results[i].status
                    /\ txtFile.data[i].valid = results[i].valid
        /\ jsonFile.k = "written" => jsonFile.data = results

C7_Witness ==
    /\ caller = "main"
    /\ pc = "done"
    /\ jsonCalls = 1 /\ txtCalls = 1
    /\ jsonFile.k = "truncated"
    /\ txtFile.k = "written"
    /\ Len(txtFile.data) = 2

\* the identifiers C8 calls numeric: an integer, or a string of digits
\* (a sign and surrounding whitespace allowed, as int() allows them)
NumericId(id) == id.t = "int" \/ (id.t = "str" /\ ParseIntStr(id.s).ok)
NumericValue(id) == IF id.t = "int" THEN id.i ELSE ParseIntStr(id.s).val

\* C8: get_creation_date gives the sentinel for a missing or non-numeric
\* identifier and, for every numeric identifier, zero included, as an
\* integer or as a string, the formatted time of (id >> 22) + epoch.
C8_DecoderTotal ==
    decoded # <<>> =>
        decoded[2] =
            IF NumericId(decoded[1])
            THEN PyStr(Strftime(EpochSec + ((NumericValue(decoded[1]) \div TwoTo22) \div 1000)))
            ELSE NA

\* C9: every step leaves the results collection unchanged or extends it by
\* one record at its end, and a step of a save method leaves it unchanged.
C9_AppendOnly ==
    [][/\ \/ results' = results
          \/ /\ Len(results') = Len(results) + 1
             /\ SubSeq(results', 1, Len(results)) = results
       /\ (jsonCalls' # jsonCalls \/ txtCalls' # txtCalls) => results' = results]_vars

C9_Witness ==
    /\ calls = 2
    /\ exit = "normal"
    /\ before # <<>>
    /\ Len(results) = Len(before) + 1
    /\ SubSeq(results, 1, Len(before)) = before

\* C10: one request per credential and no retry: requests and records
\* alternate, at most one request is outstanding, and a call that ends
\* normally has issued exactly one request for each of its credentials.
C10_Sequential ==
    /\ inflight \in {0, 1}
    /\ Len(sent) = Len(results) + inflight
    /\ \A i \in 1..Len(results) : sent[i] = results[i].token
    /\ pc = "vf_wait" <=> inflight = 1
    /\ exit = "normal" => SubSeq(sent, Len(before) + 1, Len(sent)) = tokens

C10_Witness ==
    /\ pc = "vf_wait"
    /\ idx = 2
    /\ inflight = 1
    /\ Len(sent) = 2
    /\ Len(results) = 1
    /\ outcomes[1].k = "raise"
====
